---- MODULE Spec2Model ----
(***************************************************************************)
(* Model of the C# class refactorer (csharp_refactorer.js and              *)
(* csharp_refactorer_simple.js): the split engine (generatePartialClass,   *)
(* generateMainPartialClass, ProcessSplitCSharpclassSimple) and the        *)
(* call-graph builder (buildDependencyTree).                               *)
(*                                                                         *)
(* Specifications:                                                         *)
(*   Spec        a split job, or direct generatePartialClass calls, of     *)
(*               csharp_refactorer.js                                      *)
(*   SpecSimple  the same for csharp_refactorer_simple.js                  *)
(*   SpecTree    one buildDependencyTree call on a parsed class            *)
(*   SpecTreeRun the same call, one buildNode step at a time               *)
(*   SpecMerge   mergeConfigurations and the start of the job it feeds     *)
(*   SpecCallers one findMethodCallers call on a parsed class              *)
(*   SpecRoslyn  one call of the enhanced analyzer                         *)
(*               (enhanced_csharp_refactorer.js)                           *)
(*   SpecScan    the brace scans of parseAllClasses and                    *)
(*               parseCSharpMethods on one text                            *)
(*   SpecClasses parseAllClasses on a whole text and the class declaration *)
(*               generatePartialClass writes                               *)
(*   SpecMethods the indexes parseCSharpMethods builds from the methods    *)
(*               it matches                                                *)
(*                                                                         *)
(* A parsed class is the sequence of method entries that                   *)
(* parseCSharpMethods pushed, in scan order.  An entry is identified by    *)
(* its position in that sequence; the texts of different entries are       *)
(* taken to be different, so removing an entry's content from the          *)
(* remainder buffer removes exactly that entry.  A generated file is       *)
(* the entries whose text it holds and its number of lines.                *)
(***************************************************************************)
EXTENDS Integers, Sequences, FiniteSets, TLC

VARIABLES
    variant,            \* "full" = csharp_refactorer.js, "simple" = csharp_refactorer_simple.js
    driver,             \* "job" = ProcessSplitCSharpclassSimple, "api" = direct calls on one instance
    cls,                \* entries pushed by parseCSharpMethods, in scan order
    numUsings,          \* number of using statements captured by parseSourceFile
    specs,              \* merged config.partialClasses
    dir0,               \* did destinationFolder exist before the job
    dirExists,          \* does destinationFolder exist now
    files,              \* files in destinationFolder written by the job: name -> content
    processedMethods,   \* refactorer.processedMethods (signature keys)
    remainder,          \* entries whose text is still in sourceCode / otherMembers
    pc,                 \* position in ProcessSplitCSharpclassSimple
    k,                  \* index of the spec the generation loop is at
    gen,                \* history: outcome of every generatePartialClass call so far
    error,              \* the error the job threw
    calls,              \* call sites parseMethodCalls extracts from methodsByName[m][0].content
    startClassName,     \* arguments of buildDependencyTree
    startMethodName,
    maxDepth,
    tree,               \* the dependencyTree it returned
    tpc,                \* "idle" before the call, "built" after
    response,           \* what the build_dependency_tree tool answered
    numConfigFiles,     \* configFiles.length
    configIndex,        \* number of configuration files mergeConfigurations has read
    firstConfig,        \* history: the first document read
    config,             \* the document of the current loop round
    docLists,           \* history: the partialClasses of every document read
    mergedConfig,       \* mergeConfigurations: mergedConfig
    allPartialClasses,  \* mergeConfigurations: allPartialClasses
    mpc,                \* position in mergeConfigurations
    merror,             \* the error mergeConfigurations threw
    moreCalls,          \* call sites of the further overloads: methodsByName[m][1..]
    targetMethodName,   \* argument of findMethodCallers
    callers,            \* the array it returned
    cpc,                \* "idle" before the call, "found" after
    operation,          \* the EnhancedCSharpAnalyzer method called
    isProject,          \* its isProject argument
    analyzerInstalled,  \* does fs.access(roslynAnalyzerPath) succeed
    childRun,           \* what the spawned analyzer does
    sourceReadable,     \* can the fallback analyzer parse the source file
    rpc,                \* position in the called method
    promise,            \* the promise executeRoslynAnalyzer returned
    errorEmitted,       \* has the child's 'error' event been delivered
    closeEmitted,       \* has the child's 'close' event been delivered
    result,             \* what the called method returned
    frames,             \* the buildNode calls in progress, outermost first
    runCallStack,       \* callStack while buildDependencyTree runs
    runTree,            \* the dependencyTree when the run has ended
    rtpc,               \* "idle", "running", "built"
    sourceCode,         \* the text after the opening brace of a class or method
    classScan,          \* the states of the class-body scan, one per iteration
    methodScan,         \* the state the method-body scan ended in
    spc,                \* "idle", "class", "method", "classes", "declared"
    parsed,             \* the entries the parse pushed: classes, or methodsByName
    parseError,         \* what parseSourceFile threw
    classDecl           \* the class declaration generatePartialClass wrote

splitVars == <<variant, driver, cls, numUsings, specs, dir0, dirExists, files,
               processedMethods, remainder, pc, k, gen, error>>

treeVars == <<calls, startClassName, startMethodName, maxDepth, tree, tpc, response>>

mergeVars == <<numConfigFiles, configIndex, firstConfig, config, docLists,
               mergedConfig, allPartialClasses, mpc, merror>>

callerVars == <<moreCalls, targetMethodName, callers, cpc>>

roslynVars == <<operation, isProject, analyzerInstalled, childRun, sourceReadable,
                rpc, promise, errorEmitted, closeEmitted, result>>

runVars == <<frames, runCallStack, runTree, rtpc>>

scanVars == <<sourceCode, classScan, methodScan, spc, parsed, parseError, classDecl>>

\* what each part of the program leaves alone
nonSplitVars == <<treeVars, mergeVars, callerVars, roslynVars, runVars, scanVars>>

nonTreeVars == <<splitVars, mergeVars, callerVars, roslynVars, runVars, scanVars>>

nonMergeVars == <<splitVars, treeVars, callerVars, roslynVars, runVars, scanVars>>

nonCallerVars == <<splitVars, treeVars, mergeVars, roslynVars, runVars, scanVars>>

nonRoslynVars == <<splitVars, treeVars, mergeVars, callerVars, runVars, scanVars>>

nonRunVars == <<splitVars, treeVars, mergeVars, callerVars, roslynVars, scanVars>>

nonScanVars == <<splitVars, treeVars, mergeVars, callerVars, roslynVars, runVars>>

vars == <<splitVars, treeVars, mergeVars, callerVars, roslynVars, runVars, scanVars>>

----------------------------------------------------------------------------
(* Bounds of the model *)

MaxMethods == 2
MaxSpecs == 2
MaxRequests == 3
MaxUsings == 1
MaxCallSites == 3
MaxDepthArg == 5
MaxConfigFiles == 2

MaxText == 6

MaxMatches == 3

(* Inputs *)

MethodNames == {"m1", "m2"}
SigVariants == {1, 2}
ShortMethodLines == 1
LongMethodLines == 4990
FileNames == <<"P1.cs", "P2.cs", "P3.cs", "P4.cs">>
TreeMethods == {"A", "B"}
TargetClass == "Cls"
Qualifiers == {"this", TargetClass, "obj"}

(* Program constants *)

MaxFileLines == 5000
WrapperLines == 7

mainPartialClassName == "Core.cs"

----------------------------------------------------------------------------
(* Parsed class *)

\* methodContent.split('\n').length of a method with signature variant s: the
\* first variant is a short method, the second a long one
LineCountOf(s) == IF s = 1 THEN ShortMethodLines ELSE LongMethodLines

\* one entry of methodsByName[name]: the signature key is the stripped
\* signature, which contains the method name
MethodEntry ==
    { [name |-> n, signatureKey |-> <<n, s>>, lineCount |-> LineCountOf(s)] :
        n \in MethodNames, s \in SigVariants }

ParsedClasses == UNION { [1..n -> MethodEntry] : n \in 0..MaxMethods }

MethodLists == UNION { [1..n -> MethodNames] : n \in 0..MaxRequests }

RECURSIVE TotalRequests(_, _)
\* the number of method names the first n lists hold together
TotalRequests(ms, n) ==
    IF n = 0 THEN 0 ELSE TotalRequests(ms, n - 1) + Len(ms[n])

\* merged partialClasses: distinct file names, at most MaxRequests method
\* names in all
PartialClassConfigs ==
    UNION { { [i \in 1..n |-> [fileName |-> FileNames[i], methods |-> ms[i]]] :
                ms \in { x \in [1..n -> MethodLists] : TotalRequests(x, n) <= MaxRequests } } :
            n \in 0..MaxSpecs }

RECURSIVE IndicesOf(_, _)
\* positions of the entries named name, in scan order, among the first n entries
IndicesOf(name, n) ==
    IF n = 0 THEN <<>>
    ELSE IF cls[n].name = name THEN Append(IndicesOf(name, n - 1), n)
         ELSE IndicesOf(name, n - 1)

\* this.methodsByName[name]; <<>> stands for undefined
methodsByName(name) == IndicesOf(name, Len(cls))

\* Object.keys(this.methodsByName)
availableMethodNames == { cls[i].name : i \in 1..Len(cls) }

AllEntries == 1..Len(cls)

----------------------------------------------------------------------------
(* generatePartialClass *)

\* the accumulator threaded through the method loop of one call
GenStart(processed, rem) ==
    [processed |-> processed, remainder |-> rem, emitted |-> <<>>,
     totalLines |-> 0, errors |-> <<>>]

\* the first overload only
findMethodByNameFirst(name, processed) ==
    IF methodsByName(name) = <<>> THEN <<>> ELSE <<methodsByName(name)[1]>>

\* csharp_refactorer.js: the list of all overloads, whatever was processed
\* (the statements after "return methods" are never reached)
findMethodByName(name, processed) == methodsByName(name)

\* the first overload, processed or not
findMethodByNameSimpleAny(name, processed) ==
    LET list == methodsByName(name)
    IN  IF list = <<>> THEN 0 ELSE list[1]

\* csharp_refactorer_simple.js: the first overload whose key is not processed;
\* 0 stands for null
findMethodByNameSimple(name, processed) ==
    LET list == methodsByName(name)
        open == { i \in 1..Len(list) : cls[list[i]].signatureKey \notin processed }
    IN  IF open = {} THEN 0
        ELSE list[CHOOSE i \in open : \A j \in open : i <= j]

\* the loop body without markMethodAsProcessed
EmitMethodUnmarked(acc, idx) ==
    [acc EXCEPT !.emitted = Append(@, idx),
                !.totalLines = @ + cls[idx].lineCount,
                !.remainder = @ \ {idx}]

\* mark as processed, append the content, count its lines, cut it out of the
\* remainder buffer
EmitMethod(acc, idx) ==
    [acc EXCEPT !.processed = @ \cup {cls[idx].signatureKey},
                !.emitted = Append(@, idx),
                !.totalLines = @ + cls[idx].lineCount,
                !.remainder = @ \ {idx}]

RECURSIVE EmitList(_, _, _)
\* csharp_refactorer.js: for (let key in methodInfoList) { ... }
EmitList(acc, list, i) ==
    IF i > Len(list) THEN acc
    ELSE EmitList(EmitMethod(acc, list[i]), list, i + 1)

RECURSIVE MethodLoop(_, _, _)
\* csharp_refactorer.js: for (const methodName of partialClassConfig.methods)
MethodLoop(acc, methods, j) ==
    IF j > Len(methods) THEN acc
    ELSE LET methodInfoList == findMethodByName(methods[j], acc.processed)
         IN  IF methodInfoList = <<>>
             THEN MethodLoop(acc, methods, j + 1)
             ELSE MethodLoop(EmitList(acc, methodInfoList, 1), methods, j + 1)

RECURSIVE MethodLoopSimple(_, _, _)
\* csharp_refactorer_simple.js: for (const methodName of partialClassConfig.methods)
MethodLoopSimple(acc, methods, j) ==
    IF j > Len(methods) THEN acc
    ELSE LET methodInfo == findMethodByNameSimple(methods[j], acc.processed)
         IN  IF methodInfo # 0
             THEN MethodLoopSimple(EmitMethod(acc, methodInfo), methods, j + 1)
             ELSE IF methodsByName(methods[j]) # <<>>
                  THEN MethodLoopSimple(acc, methods, j + 1)
                  ELSE MethodLoopSimple([acc EXCEPT !.errors = Append(@, methods[j])],
                                        methods, j + 1)

\* content.split('\n').length of the generated text: the using lines, the
\* namespace and class wrapper, and every method content followed by "\n\n"
finalLineCount(acc) ==
    numUsings + WrapperLines + acc.totalLines + Len(acc.emitted)

\* the comparison as an off-by-one slip would write it
ExceedsLimitOffByOne(n) == n >= MaxFileLines

\* if (finalLineCount > 5000) throw
ExceedsLimit(n) == n > MaxFileLines

\* one call of generatePartialClass: what it returns or throws, and the state
\* it leaves behind
generatePartialClass(spec, processed, rem) ==
    LET acc == IF variant = "full"
               THEN MethodLoop(GenStart(processed, rem), spec.methods, 1)
               ELSE MethodLoopSimple(GenStart(processed, rem), spec.methods, 1)
        common == [fileName |-> spec.fileName, before |-> processed,
                   emitted |-> acc.emitted,
                   processed |-> acc.processed, remainder |-> acc.remainder,
                   notFound |-> { acc.errors[i] : i \in 1..Len(acc.errors) }]
    IN  IF acc.errors # <<>>
        THEN common @@ [error |-> "MethodNotFound", lines |-> 0]
        ELSE IF ExceedsLimit(finalLineCount(acc))
             THEN common @@ [error |-> "FileTooLarge", lines |-> finalLineCount(acc)]
             ELSE common @@ [error |-> "none", lines |-> finalLineCount(acc)]

\* the text written to a per-spec file
PartialContent(g) == [kind |-> "partial", methods |-> g.emitted, lines |-> g.lines]

\* generateMainPartialClass: the remainder buffer
generateMainPartialClass(rem) == [kind |-> "core", methods |-> rem]

----------------------------------------------------------------------------
(* ProcessSplitCSharpclassSimple *)

NoError == [kind |-> "none", notFound |-> {}, missing |-> {}]

\* fs.writeFile(path.join(destination_folder, name), content)
writeFile(fs, name, content) ==
    [n \in DOMAIN fs \cup {name} |-> IF n = name THEN content ELSE fs[n]]

\* every method name requested by some spec (allRequestedMethods)
requestedMethodNames ==
    UNION { { specs[i].methods[j] : j \in 1..Len(specs[i].methods) } : i \in 1..Len(specs) }

\* requested names with no entry in refactorer.methodsByName
notFoundInSource == { n \in requestedMethodNames : methodsByName(n) = <<>> }

\* availableMethodNames.filter(name => !requestedMethodNames.includes(name))
missingFromConfig == { n \in availableMethodNames : n \notin requestedMethodNames }

SplitInit(v) ==
    /\ variant = v
    /\ driver \in {"job", "api"}
    /\ cls \in ParsedClasses
    /\ numUsings \in 0..MaxUsings
    /\ specs \in PartialClassConfigs
    /\ dir0 \in (IF driver = "job" THEN BOOLEAN ELSE {FALSE})
    /\ dirExists = dir0
    /\ files = <<>>
    /\ processedMethods = {}
    /\ remainder = {}
    /\ pc = "start"
    /\ k = 1
    /\ gen = <<>>
    /\ error = NoError

\* new CSharpRefactorer(); await refactorer.parseSourceFile(...)
ParseSourceFile ==
    /\ UNCHANGED nonSplitVars
    /\ mpc = "merged"
    /\ pc = "start"
    /\ processedMethods' = {}
    /\ remainder' = AllEntries
    /\ pc' = IF driver = "job" THEN "mkdir" ELSE "api"
    /\ UNCHANGED <<variant, driver, cls, numUsings, specs, dir0, dirExists, files,
                   k, gen, error>>

\* the job going on without creating the folder
MkdirSkipped ==
    /\ UNCHANGED nonSplitVars
    /\ pc = "mkdir"
    /\ pc' = IF variant = "full" THEN "validate" ELSE "generate"
    /\ UNCHANGED <<variant, driver, cls, numUsings, specs, dir0, dirExists, files,
                   processedMethods, remainder, k, gen, error>>

\* await fs.mkdir(destination_folder, { recursive: true })
Mkdir ==
    /\ UNCHANGED nonSplitVars
    /\ pc = "mkdir"
    /\ dirExists' = TRUE
    /\ pc' = IF variant = "full" THEN "validate" ELSE "generate"
    /\ UNCHANGED <<variant, driver, cls, numUsings, specs, dir0, files,
                   processedMethods, remainder, k, gen, error>>

\* validation that checks only that the requested names exist
ValidateRequestedOnly ==
    /\ UNCHANGED nonSplitVars
    /\ pc = "validate"
    /\ IF notFoundInSource # {}
       THEN /\ pc' = "failed"
            /\ error' = [kind |-> "Validation", notFound |-> notFoundInSource,
                         missing |-> {}]
       ELSE /\ pc' = "generate"
            /\ error' = error
    /\ UNCHANGED <<variant, driver, cls, numUsings, specs, dir0, dirExists, files,
                   processedMethods, remainder, k, gen>>

\* csharp_refactorer.js only: validate all methods before generating any file
Validate ==
    /\ UNCHANGED nonSplitVars
    /\ pc = "validate"
    /\ IF notFoundInSource # {} \/ missingFromConfig # {}
       THEN /\ pc' = "failed"
            /\ error' = [kind |-> "Validation", notFound |-> notFoundInSource,
                         missing |-> missingFromConfig]
       ELSE /\ pc' = "generate"
            /\ error' = error
    /\ UNCHANGED <<variant, driver, cls, numUsings, specs, dir0, dirExists, files,
                   processedMethods, remainder, k, gen>>

\* the loop round with the error of one spec caught and the loop continued
GenerateAndWriteKeepGoing ==
    /\ UNCHANGED nonSplitVars
    /\ pc = "generate"
    /\ k <= Len(specs)
    /\ LET g == generatePartialClass(specs[k], processedMethods, remainder)
       IN  /\ gen' = Append(gen, g)
           /\ processedMethods' = g.processed
           /\ remainder' = g.remainder
           /\ files' = IF g.error # "none" THEN files
                       ELSE writeFile(files, g.fileName, PartialContent(g))
    /\ k' = k + 1
    /\ UNCHANGED <<variant, driver, cls, numUsings, specs, dir0, dirExists, pc, error>>

\* one round of the loop over partial_classes: generate, check, write
GenerateAndWrite ==
    /\ UNCHANGED nonSplitVars
    /\ pc = "generate"
    /\ k <= Len(specs)
    /\ LET g == generatePartialClass(specs[k], processedMethods, remainder)
       IN  /\ gen' = Append(gen, g)
           /\ processedMethods' = g.processed
           /\ remainder' = g.remainder
           /\ IF g.error # "none"
              THEN /\ pc' = "failed"
                   /\ error' = [kind |-> g.error, notFound |-> g.notFound, missing |-> {}]
                   /\ UNCHANGED <<files, k>>
              ELSE IF g.lines > MaxFileLines
                   THEN /\ pc' = "failed"
                        /\ error' = [kind |-> "FileTooLarge", notFound |-> {}, missing |-> {}]
                        /\ UNCHANGED <<files, k>>
                   ELSE /\ files' = writeFile(files, g.fileName, PartialContent(g))
                        /\ k' = k + 1
                        /\ UNCHANGED <<pc, error>>
    /\ UNCHANGED <<variant, driver, cls, numUsings, specs, dir0, dirExists>>

\* const main_partial_class_file_name = config.mainPartialClassName
main_partial_class_file_name == mergedConfig.fields["mainPartialClassName"]

\* after the loop: write the main partial class file and return success
WriteCore ==
    /\ UNCHANGED nonSplitVars
    /\ pc = "generate"
    /\ k > Len(specs)
    /\ files' = writeFile(files, main_partial_class_file_name,
                        generateMainPartialClass(remainder))
    /\ pc' = "done"
    /\ UNCHANGED <<variant, driver, cls, numUsings, specs, dir0, dirExists,
                   processedMethods, remainder, k, gen, error>>

\* a caller that holds the instance itself (as the test runners do) calls
\* generatePartialClass spec after spec and catches what it throws
ApiGenerate ==
    /\ UNCHANGED nonSplitVars
    /\ pc = "api"
    /\ k <= Len(specs)
    /\ LET g == generatePartialClass(specs[k], processedMethods, remainder)
       IN  /\ gen' = Append(gen, g)
           /\ processedMethods' = g.processed
           /\ remainder' = g.remainder
    /\ k' = k + 1
    /\ UNCHANGED <<variant, driver, cls, numUsings, specs, dir0, dirExists, files,
                   pc, error>>

SplitNext ==
    \/ ParseSourceFile
    \/ Mkdir
    \/ Validate
    \/ GenerateAndWrite
    \/ WriteCore
    \/ ApiGenerate

\* csharp_refactorer_simple.js has no validation step
SplitNextSimple ==
    \/ ParseSourceFile
    \/ Mkdir
    \/ GenerateAndWrite
    \/ WriteCore
    \/ ApiGenerate

----------------------------------------------------------------------------
(* buildDependencyTree *)

\* a call site as parseMethodCalls reports it: className is the qualifier,
\* or "this" when the call has none
CallSite == [className : Qualifiers, methodName : TreeMethods]

CallLists == UNION { [1..n -> CallSite] : n \in 0..MaxCallSites }

\* the call-site lists of the methods of one class
CallGraphs ==
    { g \in [TreeMethods -> CallLists] :
        Len(g["A"]) + Len(g["B"]) <= MaxCallSites }

\* a class of three methods whose calls are all unqualified
SiblingMethods == {"A", "B", "C"}

SiblingCallLists ==
    UNION { [1..n -> [className : {"this"}, methodName : SiblingMethods]] :
              n \in 0..MaxCallSites }

SiblingCallGraphs ==
    { g \in [SiblingMethods -> SiblingCallLists] :
        Len(g["A"]) + Len(g["B"]) + Len(g["C"]) <= MaxCallSites }

\* methodInfo.lineCount of the first overload
TreeLineCount(m) == IF m = "A" THEN 3 ELSE 4

\* what buildNode returns at depth >= maxDepth
Null == [isNull |-> TRUE]

IsNull(n) == "isNull" \in DOMAIN n

\* `${className}.${methodName}`
nodeKey(className, methodName) == <<className, methodName>>

\* a callStack that already holds the start method
SeededCallStack == {nodeKey(startClassName, startMethodName)}

\* the callStack a build starts with: new Set()
NewCallStack == {}

\* a depth test that lets one more level through
tooDeepOffByOne(currentDepth) == currentDepth > maxDepth

\* if (currentDepth >= maxDepth) return null
tooDeep(currentDepth) == currentDepth >= maxDepth

\* a lookup that takes every qualifier for the class itself
resolvesAnyClass(className) == TRUE

\* if (className === 'this' || className === startClassName)
resolves(className) == className = "this" \/ className = startClassName

\* a callStack that keeps every method ever entered
keepInCallStack(callStack, key) == callStack

\* callStack.delete(nodeKey)
deleteFromCallStack(callStack, key) == callStack \ {key}

RECURSIVE buildNode(_, _, _, _)
RECURSIVE buildChildren(_, _, _, _)

\* for (const call of methodCalls): build the child, keep it unless null;
\* callStack is the one Set all calls share
buildChildren(methodCalls, i, depth, callStack) ==
    IF i > Len(methodCalls) THEN [nodes |-> <<>>, callStack |-> callStack]
    ELSE LET r == buildNode(methodCalls[i].className, methodCalls[i].methodName,
                            depth, callStack)
             rest == buildChildren(methodCalls, i + 1, depth, r.callStack)
         IN  [nodes |-> IF IsNull(r.node) THEN rest.nodes ELSE <<r.node>> \o rest.nodes,
              callStack |-> rest.callStack]

\* the node built for (className, methodName) and the callStack afterwards
buildNode(className, methodName, currentDepth, callStack) ==
    IF tooDeep(currentDepth) THEN [node |-> Null, callStack |-> callStack]
    ELSE IF nodeKey(className, methodName) \in callStack
    THEN [node |-> [className |-> className, methodName |-> methodName,
                    circular |-> TRUE, dependencies |-> <<>>],
          callStack |-> callStack]
    ELSE LET pushed == callStack \cup {nodeKey(className, methodName)}
             found == /\ resolves(className)
                      /\ methodName \in DOMAIN calls
             kids == IF found
                     THEN buildChildren(calls[methodName], 1, currentDepth + 1, pushed)
                     ELSE [nodes |-> <<>>, callStack |-> pushed]
         IN  [node |-> [className |-> className, methodName |-> methodName,
                        dependencies |-> kids.nodes, found |-> found,
                        lineCount |-> IF found THEN TreeLineCount(methodName) ELSE 0],
              callStack |-> deleteFromCallStack(kids.callStack,
                                                nodeKey(className, methodName))]

\* dependencyTree.root = buildNode(startClassName, startMethodName, 0)
buildDependencyTree ==
    [root |-> buildNode(startClassName, startMethodName, 0, NewCallStack).node]

NoTree == [root |-> [pending |-> TRUE]]

RECURSIVE formatTree(_)
RECURSIVE formatDependencies(_, _)

\* the lines formatTree renders for the dependencies from the i-th on
formatDependencies(dependencies, i) ==
    IF i > Len(dependencies) THEN 0
    ELSE formatTree(dependencies[i]) + formatDependencies(dependencies, i + 1)

\* the number of lines formatTree(node) renders: the line of the node and,
\* unless it is circular, the lines of its dependencies
formatTree(node) ==
    IF "circular" \in DOMAIN node THEN 1
    ELSE 1 + formatDependencies(node.dependencies, 1)

\* no answer yet
NoResponse == [kind |-> "none"]

TreeInit ==
    /\ calls \in CallGraphs \cup SiblingCallGraphs
    /\ startClassName \in {TargetClass, "this"}
    /\ startMethodName \in TreeMethods
    /\ maxDepth \in -1..MaxDepthArg
    /\ tree = NoTree
    /\ tpc = "idle"
    /\ response = NoResponse

\* the build_dependency_tree tool: the start method is looked up,
\* refactorer.buildDependencyTree(startClassName, startMethodName, maxDepth)
\* builds the tree and formatTree renders it; formatTree(null) reads a
\* property of null, and the TypeError ends in the catch of the tool
\* dispatcher, which answers with the text "Error: ..."
BuildTree ==
    /\ tpc = "idle"
    /\ tree' = buildDependencyTree
    /\ tpc' = "built"
    /\ response' = IF startMethodName \notin DOMAIN calls
                   THEN [kind |-> "not found"]
                   ELSE IF IsNull(buildDependencyTree.root)
                   THEN [kind |-> "error"]
                   ELSE [kind |-> "tree", lines |-> formatTree(buildDependencyTree.root)]
    /\ UNCHANGED <<calls, startClassName, startMethodName, maxDepth>>
    /\ UNCHANGED nonTreeVars

----------------------------------------------------------------------------
(* buildDependencyTree, one buildNode step at a time *)

\* the activation of a buildNode call that got past the depth test and the
\* circular test: the node it builds, the call sites it loops over and the
\* index of the call site it is at
newFrame(className, methodName, depth) ==
    LET found == resolves(className) /\ methodName \in DOMAIN calls
    IN  [className |-> className, methodName |-> methodName, depth |-> depth,
         methodCalls |-> IF found THEN calls[methodName] ELSE <<>>,
         next |-> 1,
         node |-> [className |-> className, methodName |-> methodName,
                   dependencies |-> <<>>, found |-> found,
                   lineCount |-> IF found THEN TreeLineCount(methodName) ELSE 0]]

RunInit ==
    /\ frames = <<>>
    /\ runCallStack = NewCallStack
    /\ runTree = NoTree
    /\ rtpc = "idle"

\* dependencyTree.root = buildNode(startClassName, startMethodName, 0)
StartBuild ==
    /\ rtpc = "idle"
    /\ IF tooDeep(0)
       THEN /\ runTree' = [root |-> Null]
            /\ rtpc' = "built"
            /\ UNCHANGED <<frames, runCallStack>>
       ELSE /\ frames' = <<newFrame(startClassName, startMethodName, 0)>>
            /\ runCallStack' = runCallStack \cup {nodeKey(startClassName, startMethodName)}
            /\ rtpc' = "running"
            /\ runTree' = runTree
    /\ UNCHANGED nonRunVars

\* a return that leaves the activation where it is
ReturnNodeKeepsFrame ==
    /\ rtpc = "running"
    /\ LET top == frames[Len(frames)]
       IN  /\ top.next > Len(top.methodCalls)
           /\ runCallStack' = deleteFromCallStack(runCallStack,
                                                 nodeKey(top.className, top.methodName))
           /\ UNCHANGED <<frames, runTree, rtpc>>
    /\ UNCHANGED nonRunVars

\* for (const call of methodCalls): buildNode(call.className, call.methodName,
\* currentDepth + 1) up to the point where it returns null, returns the
\* circular node, or starts on its own call sites
CallChild ==
    /\ rtpc = "running"
    /\ LET n == Len(frames)
           top == frames[n]
       IN  /\ top.next <= Len(top.methodCalls)
           /\ LET call == top.methodCalls[top.next]
                  key == nodeKey(call.className, call.methodName)
              IN  IF tooDeep(top.depth + 1)
                  THEN /\ frames' = [frames EXCEPT ![n].next = @ + 1]
                       /\ UNCHANGED runCallStack
                  ELSE IF key \in runCallStack
                  THEN /\ frames' = [frames EXCEPT
                              ![n].next = @ + 1,
                              ![n].node.dependencies =
                                  Append(@, [className |-> call.className,
                                             methodName |-> call.methodName,
                                             circular |-> TRUE, dependencies |-> <<>>])]
                       /\ UNCHANGED runCallStack
                  ELSE /\ frames' = Append(frames, newFrame(call.className, call.methodName,
                                                            top.depth + 1))
                       /\ runCallStack' = runCallStack \cup {key}
    /\ UNCHANGED <<runTree, rtpc>>
    /\ UNCHANGED nonRunVars

\* the loop over the call sites has ended: callStack.delete(nodeKey), return
\* node; the caller pushes it and goes on, or the build ends with it as root
ReturnNode ==
    /\ rtpc = "running"
    /\ LET n == Len(frames)
           top == frames[n]
       IN  /\ top.next > Len(top.methodCalls)
           /\ runCallStack' = deleteFromCallStack(runCallStack,
                                                 nodeKey(top.className, top.methodName))
           /\ IF n = 1
              THEN /\ runTree' = [root |-> top.node]
                   /\ rtpc' = "built"
                   /\ frames' = <<>>
              ELSE /\ frames' = [SubSeq(frames, 1, n - 1) EXCEPT
                                    ![n - 1].next = @ + 1,
                                    ![n - 1].node.dependencies = Append(@, top.node)]
                   /\ UNCHANGED <<runTree, rtpc>>
    /\ UNCHANGED nonRunVars

\* no tree is being built step by step
RunIdle ==
    /\ frames = <<>>
    /\ runCallStack = {}
    /\ runTree = [root |-> [pending |-> TRUE]]
    /\ rtpc = "done"

\* the class and the arguments of the run: unqualified calls among three
\* methods, started from A
RunTreeInit ==
    /\ calls \in SiblingCallGraphs
    /\ startClassName \in {TargetClass, "this"}
    /\ startMethodName = "A"
    /\ maxDepth \in -1..MaxDepthArg
    /\ tree = [root |-> [pending |-> TRUE]]
    /\ tpc = "done"
    /\ response = [kind |-> "none"]

----------------------------------------------------------------------------
(* findMethodCallers *)

\* Object.entries(this.methodsByName): the names in the order of their first
\* method in the source
MethodOrder == <<"A", "B">>

\* lengths of the call-site lists of a class of two methods with at most two
\* overloads each: first overload of A, of B, second overload of A, of B
\* (-1: there is no second overload)
OverloadLengths ==
    { l \in (0..MaxCallSites) \X (0..MaxCallSites) \X (-1..MaxCallSites) \X (-1..MaxCallSites) :
        l[1] + l[2] + (IF l[3] < 0 THEN 0 ELSE l[3]) + (IF l[4] < 0 THEN 0 ELSE l[4])
            <= MaxCallSites }

\* the further overloads of one method: none, or one with n call sites
FurtherOverloads(n) ==
    IF n < 0 THEN {<<>>} ELSE { <<l>> : l \in [1..n -> CallSite] }

\* parseMethodCalls(method.content) for every method of methodsByName[m]
overloadCallLists(m) == <<calls[m]>> \o moreCalls[m]

\* calls.some(call => call.methodName === targetMethodName)
callsTarget(callList, target) ==
    \E i \in 1..Len(callList) : callList[i].methodName = target

RECURSIVE callersAmong(_, _, _, _)
\* for (const method of methodList): the callers pushed for overloads i.. of m
callersAmong(m, lists, i, target) ==
    IF i > Len(lists) THEN <<>>
    ELSE (IF callsTarget(lists[i], target)
          THEN <<[className |-> "this", methodName |-> m, overload |-> i,
                  calls |-> SelectSeq(lists[i], LAMBDA c : c.methodName = target)]>>
          ELSE <<>>) \o callersAmong(m, lists, i + 1, target)

RECURSIVE callersFrom(_, _)
\* for (const [methodName, methodList] of Object.entries(this.methodsByName))
callersFrom(n, target) ==
    IF n > Len(MethodOrder) THEN <<>>
    ELSE callersAmong(MethodOrder[n], overloadCallLists(MethodOrder[n]), 1, target)
             \o callersFrom(n + 1, target)

\* a search that looks at the first overload of every method only
findMethodCallersFirstOverload(target) ==
    callersAmong("A", <<calls["A"]>>, 1, target)
        \o callersAmong("B", <<calls["B"]>>, 1, target)

findMethodCallers(target) == callersFrom(1, target)

\* a parsed class with overloads, and the method whose callers are asked for
CallersInit ==
    /\ \E l \in OverloadLengths :
          \E a \in [1..l[1] -> CallSite], b \in [1..l[2] -> CallSite],
             ma \in FurtherOverloads(l[3]), mb \in FurtherOverloads(l[4]) :
              /\ calls = [m \in TreeMethods |-> IF m = "A" THEN a ELSE b]
              /\ moreCalls = [m \in TreeMethods |-> IF m = "A" THEN ma ELSE mb]
    /\ startClassName = TargetClass
    /\ startMethodName = "A"
    /\ maxDepth = 3
    /\ tree = [root |-> [pending |-> TRUE]]
    /\ tpc = "done"
    /\ response = [kind |-> "none"]
    /\ targetMethodName \in TreeMethods
    /\ callers = <<>>
    /\ cpc = "idle"

\* refactorer.findMethodCallers(targetMethodName)
FindMethodCallers ==
    /\ cpc = "idle"
    /\ callers' = findMethodCallers(targetMethodName)
    /\ cpc' = "found"
    /\ UNCHANGED <<moreCalls, targetMethodName>>
    /\ UNCHANGED nonCallerVars

\* no caller search is asked for
CallersIdle ==
    /\ moreCalls = [m \in TreeMethods |-> <<>>]
    /\ targetMethodName = "A"
    /\ callers = <<>>
    /\ cpc = "done"

----------------------------------------------------------------------------
(* mergeConfigurations *)

\* a key the parsed JSON does not have
Undefined == "undefined"

\* mergedConfig.targetClassName when the first document gives none
NullValue == "null"

\* what a string field of a configuration document can hold: nothing, the
\* empty string, or one of two paths / names
FieldValues == {Undefined, "", "a", "b"}

\* if (config[key]), config.key && ...
Truthy(v) == v # Undefined /\ v # ""

\* const requiredKeys = [...]
requiredKeys == <<"sourceFile", "destinationFolder", "newNamespace", "mainPartialClassName">>

RequiredKeySet == { requiredKeys[i] : i \in 1..Len(requiredKeys) }

\* one entry of a partialClasses array; its file name is one that no string
\* field holds, or the name "a" that mainPartialClassName can hold as well
ConfigEntries ==
    { [fileName |-> f, methods |-> <<n>>] : f \in {FileNames[1], "a"}, n \in MethodNames }

ConfigEntryLists == UNION { [1..n -> ConfigEntries] : n \in 0..MaxSpecs }

\* documents that differ in their string fields and hold no partial class
FieldDocuments ==
    { [fields |-> f, targetClassName |-> t, partialClasses |-> <<>>] :
        f \in [RequiredKeySet -> FieldValues], t \in {Undefined, TargetClass} }

\* documents that differ in their partialClasses: a complete document, or
\* one that names only partial classes
ListDocuments ==
    { [fields |-> [key \in RequiredKeySet |-> v], targetClassName |-> Undefined,
       partialClasses |-> l] : v \in {Undefined, "a"}, l \in ConfigEntryLists }

\* what JSON.parse(configContent) can return
ConfigDocuments == FieldDocuments \cup ListDocuments

\* the documents the next file of the job can hold: the documents that
\* differ in their string fields come before any partial class is listed
NextDocuments ==
    IF allPartialClasses = <<>> THEN ConfigDocuments ELSE ListDocuments

\* let mergedConfig = null
NullConfig == [isNull |-> TRUE]

NoMergeError == [kind |-> "none", key |-> "", names |-> {}]

\* the first required key of the first document that is empty or absent, or
\* "" when there is none
MissingRequiredKey(cfg) ==
    LET missing == { i \in 1..Len(requiredKeys) : ~Truthy(cfg.fields[requiredKeys[i]]) }
    IN  IF missing = {} THEN ""
        ELSE requiredKeys[CHOOSE i \in missing : \A j \in missing : i <= j]

\* is the field given and different from the merged value
Differs(v, mergedValue) == Truthy(v) /\ v # mergedValue

\* the consistency checks with the one of newNamespace left out
MismatchedKeyNoNamespace(cfg, merged) ==
    IF Differs(cfg.fields["sourceFile"], merged.fields["sourceFile"])
    THEN "sourceFile"
    ELSE IF Differs(cfg.targetClassName, merged.targetClassName)
    THEN "targetClassName"
    ELSE IF Differs(cfg.fields["destinationFolder"], merged.fields["destinationFolder"])
    THEN "destinationFolder"
    ELSE IF Differs(cfg.fields["mainPartialClassName"], merged.fields["mainPartialClassName"])
    THEN "mainPartialClassName"
    ELSE ""

\* the key whose consistency check throws for a later document, or "" when
\* none does
MismatchedKey(cfg, merged) ==
    IF Differs(cfg.fields["sourceFile"], merged.fields["sourceFile"])
    THEN "sourceFile"
    ELSE IF Differs(cfg.targetClassName, merged.targetClassName)
    THEN "targetClassName"
    ELSE IF Differs(cfg.fields["destinationFolder"], merged.fields["destinationFolder"])
    THEN "destinationFolder"
    ELSE IF Differs(cfg.fields["newNamespace"], merged.fields["newNamespace"])
    THEN "newNamespace"
    ELSE IF Differs(cfg.fields["mainPartialClassName"], merged.fields["mainPartialClassName"])
    THEN "mainPartialClassName"
    ELSE ""

\* a check that calls two entries duplicates only when they are equal as a whole
duplicateEntries(list) ==
    { list[i].fileName : i \in { x \in 1..Len(list) :
        \E y \in 1..(x - 1) : list[y] = list[x] } }

\* fileNames.filter((name, index) => fileNames.indexOf(name) !== index)
duplicateFileNames(list) ==
    { list[i].fileName : i \in { x \in 1..Len(list) :
        \E y \in 1..(x - 1) : list[y].fileName = list[x].fileName } }

MergeInit ==
    /\ numConfigFiles \in 1..MaxConfigFiles
    /\ configIndex = 0
    /\ firstConfig = NullConfig
    /\ config = NullConfig
    /\ docLists = <<>>
    /\ mergedConfig = NullConfig
    /\ allPartialClasses = <<>>
    /\ mpc = "merging"
    /\ merror = NoMergeError

\* fs.readFile or JSON.parse throws: the catch block rethrows
ReadConfigFails ==
    /\ mpc = "merging"
    /\ configIndex < numConfigFiles
    /\ mpc' = "failed"
    /\ merror' = [kind |-> "ConfigRead", key |-> "", names |-> {}]
    /\ UNCHANGED <<numConfigFiles, configIndex, firstConfig, config, docLists,
                   mergedConfig, allPartialClasses>>
    /\ UNCHANGED nonMergeVars

\* one round of for (const configFile of configFiles) with document d
ReadConfig(d) ==
    /\ mpc = "merging"
    /\ configIndex < numConfigFiles
    /\ Len(allPartialClasses) + Len(d.partialClasses) <= MaxSpecs
    /\ configIndex' = configIndex + 1
    /\ config' = d
    /\ firstConfig' = IF configIndex = 0 THEN d ELSE firstConfig
    /\ IF "isNull" \in DOMAIN mergedConfig
       THEN /\ mergedConfig' =
                  [fields |-> d.fields,
                   targetClassName |-> IF Truthy(d.targetClassName)
                                       THEN d.targetClassName ELSE NullValue,
                   partialClasses |-> <<>>]
            /\ IF MissingRequiredKey(d) # ""
               THEN /\ mpc' = "failed"
                    /\ merror' = [kind |-> "MissingKey", key |-> MissingRequiredKey(d),
                                  names |-> {}]
                    /\ UNCHANGED <<allPartialClasses, docLists>>
               ELSE /\ allPartialClasses' = allPartialClasses \o d.partialClasses
                    /\ docLists' = Append(docLists, d.partialClasses)
                    /\ UNCHANGED <<mpc, merror>>
       ELSE /\ mergedConfig' = mergedConfig
            /\ IF MismatchedKey(d, mergedConfig) # ""
               THEN /\ mpc' = "failed"
                    /\ merror' = [kind |-> "Mismatch", key |-> MismatchedKey(d, mergedConfig),
                                  names |-> {}]
                    /\ UNCHANGED <<allPartialClasses, docLists>>
               ELSE /\ allPartialClasses' = allPartialClasses \o d.partialClasses
                    /\ docLists' = Append(docLists, d.partialClasses)
                    /\ UNCHANGED <<mpc, merror>>
    /\ UNCHANGED numConfigFiles
    /\ UNCHANGED nonMergeVars

\* after the loop: check for duplicate file names, return mergedConfig; the
\* job takes its partial_classes from it
FinishMerge ==
    /\ mpc = "merging"
    /\ configIndex = numConfigFiles
    /\ IF duplicateFileNames(allPartialClasses) # {}
       THEN /\ mpc' = "failed"
            /\ merror' = [kind |-> "DuplicateFileNames", key |-> "",
                          names |-> duplicateFileNames(allPartialClasses)]
            /\ UNCHANGED <<mergedConfig, specs>>
       ELSE /\ mergedConfig' = [mergedConfig EXCEPT !.partialClasses = allPartialClasses]
            /\ specs' = allPartialClasses
            /\ mpc' = "merged"
            /\ merror' = merror
    /\ UNCHANGED <<numConfigFiles, configIndex, firstConfig, config, docLists,
                   allPartialClasses>>
    /\ UNCHANGED <<variant, driver, cls, numUsings, dir0, dirExists, files,
                   processedMethods, remainder, pc, k, gen, error>>
    /\ UNCHANGED <<treeVars, callerVars, roslynVars, runVars, scanVars>>

\* the job before its configuration is merged: the source file holds a
\* class of one method, nothing is parsed or written yet
SplitBeforeMerge ==
    /\ variant = "full"
    /\ driver = "job"
    /\ cls = <<[name |-> "m1", signatureKey |-> <<"m1", 1>>, lineCount |-> LineCountOf(1)]>>
    /\ numUsings = 0
    /\ specs = <<>>
    /\ dir0 \in BOOLEAN
    /\ dirExists = dir0
    /\ files = <<>>
    /\ processedMethods = {}
    /\ remainder = {}
    /\ pc = "start"
    /\ k = 1
    /\ gen = <<>>
    /\ error = NoError

\* the configuration of the job is merged already: its partial classes are
\* specs, its core file has a name of its own
MergeDone ==
    /\ numConfigFiles = 1
    /\ configIndex = 1
    /\ firstConfig = NullConfig
    /\ config = NullConfig
    /\ docLists = <<>>
    /\ mergedConfig =
          [fields |-> [key \in RequiredKeySet |->
                          IF key = "mainPartialClassName" THEN mainPartialClassName
                          ELSE "a"],
           targetClassName |-> NullValue,
           partialClasses |-> specs]
    /\ allPartialClasses = <<>>
    /\ mpc = "merged"
    /\ merror = NoMergeError

----------------------------------------------------------------------------
(* EnhancedCSharpAnalyzer *)

Operations == {"listClasses", "listMethods", "buildDependencyTree"}

\* a run of the analyzer executable: it starts and closes with an exit code
\* and an output (a JSON object, the JSON text null, or no JSON at all), or
\* it cannot be started
ChildRuns ==
    { [spawn |-> "ok", code |-> c, stdout |-> o] :
        c \in {0, 1}, o \in {"object", "null", "garbage"} }
    \cup { [spawn |-> "error", code |-> -2, stdout |-> "garbage"] }

Pending == [state |-> "pending"]

\* resolve(value): a settled promise keeps its value
resolve(p, value) ==
    IF p.state = "pending" THEN [state |-> "resolved", value |-> value] ELSE p

\* the close handler with the output taken as parsed whenever the code is 0
closeResultUnparsed(code, stdout) ==
    IF code = 0 THEN [success |-> TRUE, data |-> stdout]
    ELSE [success |-> FALSE, data |-> "none"]

\* child.on('close', (code) => ...): what the handler resolves with
closeResult(code, stdout) ==
    IF code = 0
    THEN IF stdout # "garbage"
         THEN [success |-> TRUE, data |-> stdout]
         ELSE [success |-> FALSE, data |-> "none"]
    ELSE [success |-> FALSE, data |-> "none"]

\* methodNames.map(... methodList.map(...)).flat(): the overloads name by
\* name, the names in the order of their first method
RECURSIVE regexMethods(_, _)
regexMethods(n, seen) ==
    IF n > Len(cls) THEN <<>>
    ELSE IF cls[n].name \in seen THEN regexMethods(n + 1, seen)
    ELSE LET list == methodsByName(cls[n].name)
         IN  [i \in 1..Len(list) |->
                 [methodName |-> cls[n].name, lineCount |-> cls[list[i]].lineCount]]
             \o regexMethods(n + 1, seen \cup {cls[n].name})

\* the regex-based analysis at the end of listClasses, listMethods and
\* buildDependencyTree
regexFallback ==
    IF isProject \/ ~sourceReadable
    THEN [success |-> FALSE, source |-> "regex", payload |-> "error"]
    ELSE [success |-> TRUE, source |-> "regex",
          payload |-> CASE operation = "listClasses" -> <<TargetClass>>
                        [] operation = "listMethods" -> regexMethods(1, {})
                        [] OTHER -> buildDependencyTree]

\* the object returned when result.success
roslynResult(data) == [success |-> TRUE, source |-> "roslyn", payload |-> data]

RoslynInit ==
    /\ operation \in Operations
    /\ isProject \in BOOLEAN
    /\ analyzerInstalled \in BOOLEAN
    /\ childRun \in ChildRuns
    /\ sourceReadable \in BOOLEAN
    /\ rpc = "call"
    /\ promise = Pending
    /\ errorEmitted = FALSE
    /\ closeEmitted = FALSE
    /\ result = [pending |-> TRUE]

\* const isRoslynAvailable = await this.isRoslynAnalyzerAvailable()
CheckAvailable ==
    /\ rpc = "call"
    /\ rpc' = IF analyzerInstalled THEN "spawn" ELSE "fallback"
    /\ UNCHANGED <<operation, isProject, analyzerInstalled, childRun, sourceReadable,
                   promise, errorEmitted, closeEmitted, result>>
    /\ UNCHANGED nonRoslynVars

\* executeRoslynAnalyzer: spawn the child, return the promise
ExecuteRoslynAnalyzer ==
    /\ rpc = "spawn"
    /\ rpc' = "await"
    /\ UNCHANGED <<operation, isProject, analyzerInstalled, childRun, sourceReadable,
                   promise, errorEmitted, closeEmitted, result>>
    /\ UNCHANGED nonRoslynVars

\* child.on('error', ...)
OnError ==
    /\ rpc \in {"await", "fallback", "returned"}
    /\ analyzerInstalled
    /\ childRun.spawn = "error"
    /\ ~errorEmitted
    /\ errorEmitted' = TRUE
    /\ promise' = resolve(promise, [success |-> FALSE, data |-> "none"])
    /\ UNCHANGED <<operation, isProject, analyzerInstalled, childRun, sourceReadable,
                   rpc, closeEmitted, result>>
    /\ UNCHANGED nonRoslynVars

\* child.on('close', (code) => ...)
OnClose ==
    /\ rpc \in {"await", "fallback", "returned"}
    /\ analyzerInstalled
    /\ ~closeEmitted
    /\ closeEmitted' = TRUE
    /\ promise' = resolve(promise, closeResult(childRun.code, childRun.stdout))
    /\ UNCHANGED <<operation, isProject, analyzerInstalled, childRun, sourceReadable,
                   rpc, errorEmitted, result>>
    /\ UNCHANGED nonRoslynVars

\* the await ends: return the analyzer's result, or warn and go on to the
\* fallback (also when reading result.data.classes / .methods throws)
AfterAnalyzer ==
    /\ rpc = "await"
    /\ promise.state = "resolved"
    /\ IF promise.value.success
          /\ (promise.value.data # "null" \/ operation = "buildDependencyTree")
       THEN /\ result' = roslynResult(promise.value.data)
            /\ rpc' = "returned"
       ELSE /\ result' = result
            /\ rpc' = "fallback"
    /\ UNCHANGED <<operation, isProject, analyzerInstalled, childRun, sourceReadable,
                   promise, errorEmitted, closeEmitted>>
    /\ UNCHANGED nonRoslynVars

\* the regex-based fallback
Fallback ==
    /\ rpc = "fallback"
    /\ result' = regexFallback
    /\ rpc' = "returned"
    /\ UNCHANGED <<operation, isProject, analyzerInstalled, childRun, sourceReadable,
                   promise, errorEmitted, closeEmitted>>
    /\ UNCHANGED nonRoslynVars

\* no method of the enhanced analyzer is called
RoslynIdle ==
    /\ operation = "listClasses"
    /\ isProject = FALSE
    /\ analyzerInstalled = FALSE
    /\ childRun = [spawn |-> "error", code |-> -2, stdout |-> "garbage"]
    /\ sourceReadable = TRUE
    /\ rpc = "done"
    /\ promise = Pending
    /\ errorEmitted = FALSE
    /\ closeEmitted = FALSE
    /\ result = [pending |-> TRUE]

\* the fallback analyzer's view of the source file: the parsed class, no
\* split, and the tree arguments of the call
RoslynSource ==
    /\ variant = "full"
    /\ driver = "api"
    /\ cls \in ParsedClasses
    /\ numUsings = 0
    /\ specs = <<>>
    /\ dir0 = FALSE
    /\ dirExists = FALSE
    /\ files = <<>>
    /\ processedMethods = {}
    /\ remainder = {}
    /\ pc = "idle"
    /\ k = 1
    /\ gen = <<>>
    /\ error = NoError

----------------------------------------------------------------------------
(* Brace scanners of parseAllClasses and parseCSharpMethods *)

\* the characters the scanners tell apart
ScanChars == {"{", "}", "\"", "\\", "/", "*", "\n"}

\* sourceCode[i], undefined past the end
charAt(text, i) == IF i \in 1..Len(text) THEN text[i] ELSE Undefined

\* parseAllClasses: the scan starts after the opening brace with braceCount 1;
\* endIndex is the index of the closing brace, 0 while none is found
classScanStart ==
    [i |-> 1, braceCount |-> 1, isInString |-> FALSE, isInComment |-> FALSE,
     isInLineComment |-> FALSE, escapeNext |-> FALSE, endIndex |-> 0]

\* one iteration of the for loop of parseAllClasses, the i++ included
classScanStep(text, s) ==
    LET char == charAt(text, s.i)
        nextChar == charAt(text, s.i + 1)
    IN  IF s.escapeNext
        THEN [s EXCEPT !.escapeNext = FALSE, !.i = @ + 1]
        ELSE IF char = "\\" /\ s.isInString
        THEN [s EXCEPT !.escapeNext = TRUE, !.i = @ + 1]
        ELSE IF char = "\"" /\ ~s.isInComment /\ ~s.isInLineComment
        THEN [s EXCEPT !.isInString = ~@, !.i = @ + 1]
        ELSE IF s.isInString
        THEN [s EXCEPT !.i = @ + 1]
        ELSE IF char = "/" /\ nextChar = "*" /\ ~s.isInLineComment
        THEN [s EXCEPT !.isInComment = TRUE, !.i = @ + 2]
        ELSE IF char = "*" /\ nextChar = "/" /\ s.isInComment
        THEN [s EXCEPT !.isInComment = FALSE, !.i = @ + 2]
        ELSE IF char = "/" /\ nextChar = "/" /\ ~s.isInComment
        THEN [s EXCEPT !.isInLineComment = TRUE, !.i = @ + 2]
        ELSE IF char = "\n" /\ s.isInLineComment
        THEN [s EXCEPT !.isInLineComment = FALSE, !.i = @ + 1]
        ELSE LET counted == ~s.isInComment /\ ~s.isInLineComment
                 count == IF counted /\ char = "{" THEN s.braceCount + 1
                          ELSE IF counted /\ char = "}" THEN s.braceCount - 1
                          ELSE s.braceCount
             IN  IF count = 0
                 THEN [s EXCEPT !.braceCount = 0, !.endIndex = s.i]
                 ELSE [s EXCEPT !.braceCount = count, !.i = @ + 1]

\* the for loop of parseAllClasses: the states after each iteration, up to
\* the break or the end of the text
RECURSIVE classScanFrom(_, _)
classScanFrom(text, s) ==
    IF s.i > Len(text) \/ s.endIndex # 0
    THEN <<>>
    ELSE LET t == classScanStep(text, s)
         IN  <<t>> \o classScanFrom(text, t)

\* parseCSharpMethods: the scan starts after the opening brace of the method
methodScanStart ==
    [j |-> 1, braceCount |-> 1, isCommentLine |-> FALSE, endIndex |-> 0]

\* one iteration of the for loop of parseCSharpMethods; char is one
\* character, so the test char === '\r\n' never holds
methodScanStep(text, s) ==
    LET char == charAt(text, s.j)
        comment == IF char = "\n" THEN FALSE
                   ELSE IF char = "/" /\ charAt(text, s.j + 1) = "/" THEN TRUE
                   ELSE s.isCommentLine
        count == IF ~comment /\ char = "{" THEN s.braceCount + 1
                 ELSE IF ~comment /\ char = "}" THEN s.braceCount - 1
                 ELSE s.braceCount
    IN  IF count = 0
        THEN [s EXCEPT !.isCommentLine = comment, !.braceCount = 0, !.endIndex = s.j]
        ELSE [s EXCEPT !.isCommentLine = comment, !.braceCount = count, !.j = @ + 1]

\* the for loop of parseCSharpMethods: the state at the break or at the end
\* of the text
RECURSIVE methodScanFrom(_, _)
methodScanFrom(text, s) ==
    IF s.j > Len(text) \/ s.endIndex # 0
    THEN s
    ELSE methodScanFrom(text, methodScanStep(text, s))

\* no declaration written yet
NoDeclaration == [interface |-> "", text |-> <<>>]

ScanInit ==
    /\ \E n \in 0..MaxText : sourceCode \in [1..n -> ScanChars]
    /\ classScan = <<>>
    /\ methodScan = methodScanStart
    /\ spc = "idle"
    /\ parsed = <<>>
    /\ parseError = "none"
    /\ classDecl = NoDeclaration

\* parseSourceFile on a file with one class declaration, whose opening brace
\* is followed by sourceCode: parseAllClasses pushes the class when its scan
\* finds the closing brace and goes on without it when not; with no class
\* pushed parseSourceFile throws 'No classes found in the source file'
ScanClassBody ==
    /\ spc = "idle"
    /\ classScan' = classScanFrom(sourceCode, classScanStart)
    /\ LET scan == classScanFrom(sourceCode, classScanStart)
           endIndex == IF scan = <<>> THEN 0 ELSE scan[Len(scan)].endIndex
       IN  /\ parsed' = IF endIndex # 0
                        THEN <<[startIndex |-> 0, endIndex |-> endIndex]>>
                        ELSE <<>>
           /\ parseError' = IF endIndex # 0 THEN "none" ELSE "No classes found"
    /\ spc' = "class"
    /\ UNCHANGED <<sourceCode, methodScan, classDecl>>
    /\ UNCHANGED nonScanVars

\* parseCSharpMethods on a class body with one method signature, whose
\* opening brace is followed by sourceCode: the method is pushed when the
\* scan finds the closing brace; when it does not, the for loop ends, the
\* next match is looked for and the index is returned without the method
ScanMethodBody ==
    /\ spc = "idle"
    /\ methodScan' = methodScanFrom(sourceCode, methodScanStart)
    /\ LET endIndex == methodScanFrom(sourceCode, methodScanStart).endIndex
       IN  parsed' = IF endIndex # 0
                     THEN <<[startIndex |-> 0, endIndex |-> endIndex]>>
                     ELSE <<>>
    /\ parseError' = "none"
    /\ spc' = "method"
    /\ UNCHANGED <<sourceCode, classScan, classDecl>>
    /\ UNCHANGED nonScanVars

\* no text is being scanned
ScanIdle ==
    /\ sourceCode = <<>>
    /\ classScan = <<>>
    /\ methodScan = methodScanStart
    /\ spc = "done"
    /\ parsed = <<>>
    /\ parseError = "none"
    /\ classDecl = NoDeclaration

----------------------------------------------------------------------------
(* parseAllClasses on a whole text, and the declaration generatePartialClass writes *)

\* the tokens of a source text: "c" is the text of a class declaration
\* (public class K, with what follows it on its line), the others are braces
ClassChars == {"c", "{", "}"}

RECURSIVE parseAllClassesFrom(_, _)
\* while ((match = classPattern.exec(sourceCode)) !== null): the pattern
\* matches at the first declaration from lastIndex on that an opening brace
\* follows and takes the text up to that brace; the match ends before the
\* brace, and the next search starts there, not at the end of the class; the
\* class is pushed when the scan from the brace finds its end
parseAllClassesFrom(text, lastIndex) ==
    LET starts == { p \in lastIndex..Len(text) :
                      text[p] = "c" /\ \E q \in (p + 1)..Len(text) : text[q] = "{" }
    IN  IF starts = {} THEN <<>>
        ELSE LET index == CHOOSE p \in starts : \A o \in starts : p <= o
                 braces == { q \in (index + 1)..Len(text) : text[q] = "{" }
                 braceIndex == CHOOSE q \in braces : \A o \in braces : q <= o
                 scan == classScanFrom(SubSeq(text, braceIndex + 1, Len(text)),
                                       classScanStart)
                 endIndex == IF scan = <<>> THEN 0 ELSE scan[Len(scan)].endIndex
                 rest == parseAllClassesFrom(text, braceIndex)
             IN  IF endIndex = 0 THEN rest
                 ELSE <<[declaration |-> SubSeq(text, index, braceIndex - 1),
                         startIndex |-> index,
                         endIndex |-> braceIndex + endIndex]>> \o rest

\* parseSourceFile up to the choice of the target class
ParseAllClasses ==
    /\ spc = "idle"
    /\ parsed' = parseAllClassesFrom(sourceCode, 1)
    /\ parseError' = IF parseAllClassesFrom(sourceCode, 1) = <<>>
                     THEN "No classes found" ELSE "none"
    /\ spc' = "classes"
    /\ UNCHANGED <<sourceCode, classScan, methodScan, classDecl>>
    /\ UNCHANGED nonScanVars

\* String.prototype.replace with a string pattern: the first occurrence
replaceFirst(text, char, replacement) ==
    LET hits == { i \in 1..Len(text) : text[i] = char }
    IN  IF hits = {} THEN text
        ELSE LET first == CHOOSE i \in hits : \A o \in hits : i <= o
             IN  SubSeq(text, 1, first - 1) \o replacement
                     \o SubSeq(text, first + 1, Len(text))

\* generatePartialClass for a spec whose interface is interfaceImpl ("" when
\* it has none): classDecl is the declaration of the target class, the
\* first class found; the interface replaces the first '{' of classDecl;
\* classDecl and then the opening brace of the class are written
GenerateClassDeclaration(interfaceImpl) ==
    /\ spc = "classes"
    /\ parsed # <<>>
    /\ LET classDeclaration == parsed[1].declaration
       IN  classDecl' =
             [interface |-> interfaceImpl,
              text |-> (IF interfaceImpl # ""
                        THEN replaceFirst(classDeclaration, "{", <<":", interfaceImpl, "{">>)
                        ELSE classDeclaration) \o <<"{">>]
    /\ spc' = "declared"
    /\ UNCHANGED <<sourceCode, classScan, methodScan, parsed, parseError>>
    /\ UNCHANGED nonScanVars

----------------------------------------------------------------------------
(* parseCSharpMethods: the two indexes *)

\* the signature texts methodPattern can match, token by token: the method
\* name, white space, the parameter list
MethodSignatures ==
    { <<"m1", "(", ")">>, <<"m1", " ", "(", ")">>, <<"m1", "(", "x", ")">>,
      <<"m2", "(", ")">>, <<"toString", "(", ")">> }

\* const methodsByName = {}: the names a lookup in an object literal finds
\* without their having been stored, a function of Object.prototype each
ObjectPrototypeNames ==
    { "constructor", "toString", "valueOf", "hasOwnProperty" }

\* fullSignatureRaw.replace(/[\s\r\n]+/g, '').trim()
signatureKey(fullSignatureRaw) ==
    SelectSeq(fullSignatureRaw, LAMBDA t : t # " ")

RECURSIVE parseCSharpMethodsFrom(_, _, _)
\* while ((match = methodPattern.exec(sourceCode)) !== null), from the
\* matchNum-th match on: a match whose scan finds the closing brace is stored
\* in methods under its signature key, over what the key held, and pushed
\* to the list of its name; its content is the text of this match.
\* methodsByName[methodName] of a name never stored and inherited from
\* Object.prototype is a function: no list is created and the push raises
parseCSharpMethodsFrom(matches, matchNum, indexes) ==
    IF matchNum > Len(matches) THEN indexes
    ELSE LET match == matches[matchNum]
             key == signatureKey(match.signature)
             methodName == match.signature[1]
             names == DOMAIN indexes.methodsByName
             list == IF methodName \in names
                     THEN indexes.methodsByName[methodName] ELSE <<>>
             entry == [signature |-> match.signature, content |-> matchNum,
                       signatureKey |-> key]
             stored == [q \in DOMAIN indexes.methods \cup {key} |->
                          IF q = key THEN matchNum ELSE indexes.methods[q]]
         IN  IF ~match.closed
             THEN parseCSharpMethodsFrom(matches, matchNum + 1, indexes)
             ELSE IF methodName \notin names /\ methodName \in ObjectPrototypeNames
             THEN [methods |-> stored,
                   methodsByName |-> indexes.methodsByName,
                   raised |-> TRUE]
             ELSE parseCSharpMethodsFrom(matches, matchNum + 1,
                    [methods |-> stored,
                     methodsByName |->
                        [n \in names \cup {methodName} |->
                            IF n = methodName THEN Append(list, entry)
                            ELSE indexes.methodsByName[n]],
                     raised |-> FALSE])

\* this.methods = this.parseCSharpMethods(classContent): sourceCode is the
\* class body, as the sequence of the signatures methodPattern matches in it.
\* A call that raises assigns neither this.methods nor this.methodsByName
ParseCSharpMethods ==
    /\ spc = "idle"
    /\ LET indexes == parseCSharpMethodsFrom(sourceCode, 1,
                        [methods |-> <<>>, methodsByName |-> <<>>, raised |-> FALSE])
       IN  /\ parsed' = IF indexes.raised
                        THEN [methods |-> <<>>, methodsByName |-> <<>>]
                        ELSE [methods |-> indexes.methods,
                              methodsByName |-> indexes.methodsByName]
           /\ parseError' = IF indexes.raised THEN "TypeError" ELSE "none"
    /\ spc' = "methods"
    /\ UNCHANGED <<sourceCode, classScan, methodScan, classDecl>>
    /\ UNCHANGED nonScanVars

----------------------------------------------------------------------------
(* Specifications *)

\* the split job runs, no tree is asked for
TreeIdle ==
    /\ calls = [m \in TreeMethods |-> <<>>]
    /\ startClassName = TargetClass
    /\ startMethodName = "A"
    /\ maxDepth = 3
    /\ tree = NoTree
    /\ tpc = "done"
    /\ response = NoResponse

\* a tree is asked for, no split job runs
SplitIdle ==
    /\ variant = "full"
    /\ driver = "job"
    /\ cls = <<>>
    /\ numUsings = 0
    /\ specs = <<>>
    /\ dir0 = FALSE
    /\ dirExists = FALSE
    /\ files = <<>>
    /\ processedMethods = {}
    /\ remainder = {}
    /\ pc = "idle"
    /\ k = 1
    /\ gen = <<>>
    /\ error = NoError

\* a split job of csharp_refactorer.js
Init == SplitInit("full") /\ TreeIdle /\ MergeDone /\ CallersIdle /\ RoslynIdle /\ RunIdle /\ ScanIdle

Next == SplitNext

Spec == Init /\ [][Next]_vars

\* a split job of csharp_refactorer_simple.js
InitSimple == SplitInit("simple") /\ TreeIdle /\ MergeDone /\ CallersIdle /\ RoslynIdle /\ RunIdle /\ ScanIdle

NextSimple == SplitNextSimple

SpecSimple == InitSimple /\ [][NextSimple]_vars

InitTree == SplitIdle /\ TreeInit /\ MergeDone /\ CallersIdle /\ RoslynIdle /\ RunIdle /\ ScanIdle

NextTree == BuildTree

SpecTree == InitTree /\ [][NextTree]_vars

\* the start of a split job of csharp_refactorer.js: merge the configuration
\* files, parse the source, create the destination folder
InitMerge == SplitBeforeMerge /\ TreeIdle /\ MergeInit /\ CallersIdle /\ RoslynIdle /\ RunIdle /\ ScanIdle

NextMerge ==
    \/ \E d \in NextDocuments : ReadConfig(d)
    \/ ReadConfigFails
    \/ FinishMerge
    \/ ParseSourceFile
    \/ Mkdir
    \/ Validate
    \/ GenerateAndWrite
    \/ WriteCore

SpecMerge == InitMerge /\ [][NextMerge]_vars

\* one findMethodCallers call on a parsed class
InitCallers == SplitIdle /\ MergeDone /\ CallersInit /\ RoslynIdle /\ RunIdle /\ ScanIdle

NextCallers == FindMethodCallers

SpecCallers == InitCallers /\ [][NextCallers]_vars

\* one call of listClasses, listMethods or buildDependencyTree of the
\* enhanced analyzer
InitRoslyn == RoslynSource /\ TreeIdle /\ MergeDone /\ CallersIdle /\ RoslynInit /\ RunIdle /\ ScanIdle

NextRoslyn ==
    \/ CheckAvailable
    \/ ExecuteRoslynAnalyzer
    \/ OnError
    \/ OnClose
    \/ AfterAnalyzer
    \/ Fallback

SpecRoslyn == InitRoslyn /\ [][NextRoslyn]_vars

\* one buildDependencyTree call, run step by step; the call is synchronous,
\* so a step that can be taken is taken
InitTreeRun ==
    SplitIdle /\ MergeDone /\ CallersIdle /\ RoslynIdle /\ RunTreeInit /\ RunInit
        /\ ScanIdle

NextTreeRun ==
    \/ StartBuild
    \/ CallChild
    \/ ReturnNode

SpecTreeRun == InitTreeRun /\ [][NextTreeRun]_vars /\ WF_vars(NextTreeRun)

\* the brace scanners on one text
InitScan ==
    SplitIdle /\ TreeIdle /\ MergeDone /\ CallersIdle /\ RoslynIdle /\ RunIdle /\ ScanInit

NextScan ==
    \/ ScanClassBody
    \/ ScanMethodBody

SpecScan == InitScan /\ [][NextScan]_vars

\* parseAllClasses on one text of declarations and braces, and the class
\* declaration of a partial class file
InitClasses ==
    /\ SplitIdle /\ TreeIdle /\ MergeDone /\ CallersIdle /\ RoslynIdle /\ RunIdle
    /\ \E n \in 0..MaxText : sourceCode \in [1..n -> ClassChars]
    /\ classScan = <<>>
    /\ methodScan = methodScanStart
    /\ spc = "idle"
    /\ parsed = <<>>
    /\ parseError = "none"
    /\ classDecl = NoDeclaration

NextClasses ==
    \/ ParseAllClasses
    \/ \E interfaceImpl \in {"", "IFoo"} : GenerateClassDeclaration(interfaceImpl)

SpecClasses == InitClasses /\ [][NextClasses]_vars

\* parseCSharpMethods on a class body with up to MaxMatches method
\* signatures, each with a body the scan closes or does not close
InitMethods ==
    /\ SplitIdle /\ TreeIdle /\ MergeDone /\ CallersIdle /\ RoslynIdle /\ RunIdle
    /\ \E n \in 0..MaxMatches :
          sourceCode \in [1..n -> [signature : MethodSignatures, closed : BOOLEAN]]
    /\ classScan = <<>>
    /\ methodScan = methodScanStart
    /\ spc = "idle"
    /\ parsed = <<>>
    /\ parseError = "none"
    /\ classDecl = NoDeclaration

NextMethods == ParseCSharpMethods

SpecMethods == InitMethods /\ [][NextMethods]_vars

----------------------------------------------------------------------------
(* Properties of the split job *)

\* the entries whose text a generatePartialClass outcome holds
Emitted(g) == { g.emitted[i] : i \in 1..Len(g.emitted) }

\* the names a spec lists
Listed(spec) == { spec.methods[i] : i \in 1..Len(spec.methods) }

\* does the written file name hold the text of entry e
FileHolds(name, e) ==
    /\ name \in DOMAIN files
    /\ IF files[name].kind = "core"
       THEN e \in files[name].methods
       ELSE \E i \in 1..Len(files[name].methods) : files[name].methods[i] = e

PartialFileNames == { n \in DOMAIN files : files[n].kind = "partial" }

\* the names of the files of the first n specs
FirstFileNames(n) == { specs[j].fileName : j \in 1..n }

\* parsed names that no spec lists
UnlistedNames ==
    { cls[e].name : e \in { x \in AllEntries :
        \A i \in 1..Len(specs) : cls[x].name \notin Listed(specs[i]) } }

RECURSIVE SumLines(_, _)
\* lines the first n emitted methods add to a file: the content and the
\* blank line after it
SumLines(emitted, n) ==
    IF n = 0 THEN 0
    ELSE SumLines(emitted, n - 1) + cls[emitted[n]].lineCount + 1

\* lines of the generated content: wrapper plus emitted methods
ContentLines(g) == numUsings + 7 + SumLines(g.emitted, Len(g.emitted))

\* C1: after a successful split job of csharp_refactorer.js every parsed
\* method is in exactly one output file and in at most one per-spec file
C1_ExactlyOneOutputFile ==
    (variant = "full" /\ driver = "job" /\ pc = "done") =>
        \A e \in AllEntries :
            /\ Cardinality({ n \in DOMAIN files : FileHolds(n, e) }) = 1
            /\ Cardinality({ n \in PartialFileNames : FileHolds(n, e) }) <= 1

\* C2: in csharp_refactorer.js, when two specs list the same method name, the
\* call for the first emits it and the call for the second emits nothing for
\* that name and does not fail on it
C2_FirstRequestWins ==
    (variant = "full" /\ driver = "job") =>
        \A i \in 1..Len(gen) : \A j \in 1..Len(gen) :
            \A n \in Listed(specs[i]) \cap Listed(specs[j]) \cap availableMethodNames :
                i < j =>
                    /\ \E e \in Emitted(gen[i]) : cls[e].name = n
                    /\ \A e \in Emitted(gen[j]) : cls[e].name # n
                    /\ n \notin gen[j].notFound

\* C3: a job of csharp_refactorer.js that names an unknown method fails with
\* no file written and the destination folder as it was before the call
C3_UnknownMethodLeavesFolderUntouched ==
    (variant = "full" /\ driver = "job" /\ pc = "failed" /\ error.notFound # {}) =>
        /\ files = <<>>
        /\ dirExists = dir0

\* C4: in csharp_refactorer.js, when a parsed method name is listed by no
\* spec, the job (once past validation) has failed with an error that lists
\* exactly the missing names, and no output file is written
C4_IncompleteConfigurationFails ==
    (variant = "full" /\ driver = "job" /\ pc \in {"generate", "done", "failed"}
        /\ UnlistedNames # {}) =>
        /\ pc = "failed"
        /\ error.kind = "Validation"
        /\ error.missing = UnlistedNames
        /\ files = <<>>

C4_Witness ==
    /\ variant = "full" /\ driver = "job" /\ pc = "failed"
    /\ error.missing # {}
    /\ error.notFound = {}
    /\ Len(specs) >= 1
    /\ dirExists

\* C5: generatePartialClass raises the line-limit error exactly when the
\* content it generated has more than 5000 lines, and a spec whose generation
\* raised has no file
C5_LineLimitExactlyAbove5000 ==
    \A i \in 1..Len(gen) :
        /\ gen[i].notFound = {} =>
              /\ gen[i].lines = ContentLines(gen[i])
              /\ (gen[i].error = "FileTooLarge") <=> (ContentLines(gen[i]) > 5000)
        /\ (driver = "job" /\ gen[i].error # "none") => gen[i].fileName \notin DOMAIN files

C5_Witness ==
    /\ driver = "job" /\ pc = "failed" /\ error.kind = "FileTooLarge"
    /\ ContentLines(gen[Len(gen)]) = 5001
    /\ gen[Len(gen)].fileName \notin DOMAIN files

\* C6 as stated: in csharp_refactorer_simple.js a later call that lists a name
\* an earlier call emitted emits nothing for that name, overloads included
C6_EmittedNameSkippedLater ==
    variant = "simple" =>
        \A i \in 1..Len(gen) : \A j \in 1..Len(gen) :
            \A n \in Listed(specs[j]) :
                (i < j /\ \E e \in Emitted(gen[i]) : cls[e].name = n) =>
                    \A e \in Emitted(gen[j]) : cls[e].name # n

\* the overloads of name n whose signature key is not in the set processed
Unconsumed(n, processed) ==
    { e \in AllEntries : cls[e].name = n /\ cls[e].signatureKey \notin processed }

\* C6 amended: in csharp_refactorer_simple.js no call emits the text of a
\* method whose signature key an earlier call consumed; a listed name all of
\* whose overloads are consumed is skipped without error; a listed name with
\* an unconsumed overload has its first unconsumed overload emitted
C6_ConsumedOverloadSkippedLater ==
    variant = "simple" =>
        \A j \in 1..Len(gen) :
            /\ \A e \in Emitted(gen[j]) : cls[e].signatureKey \notin gen[j].before
            /\ \A i \in 1..Len(gen) : i < j => Emitted(gen[i]) \cap Emitted(gen[j]) = {}
            /\ \A n \in Listed(specs[j]) \cap availableMethodNames :
                  /\ n \notin gen[j].notFound
                  /\ IF Unconsumed(n, gen[j].before) = {}
                     THEN \A e \in Emitted(gen[j]) : cls[e].name # n
                     ELSE \E e \in Emitted(gen[j]) :
                            /\ e \in Unconsumed(n, gen[j].before)
                            /\ \A x \in Unconsumed(n, gen[j].before) : e <= x

C6_Witness ==
    /\ variant = "simple"
    /\ Len(gen) = 2
    /\ gen[2].error = "none"
    /\ \E n \in Listed(specs[2]) :
          /\ \E e \in Emitted(gen[1]) : cls[e].name = n
          /\ \A e \in Emitted(gen[2]) : cls[e].name # n
    /\ gen[2].emitted # <<>>

\* C7: a job of csharp_refactorer_simple.js that fails on an unknown method
\* leaves none of its files on disk
C7_UnknownMethodLeavesNoFile ==
    (variant = "simple" /\ driver = "job" /\ pc = "failed"
        /\ error.kind = "MethodNotFound") =>
        files = <<>>

\* C8: when the generation of spec k of a job fails on the line limit, the
\* job has stopped there: the files of specs 1..k-1 hold what was generated
\* for them, and there is no other file (not of spec k, not of a later spec,
\* not the core file)
C8_LineLimitStopsJobKeepsEarlierFiles ==
    driver = "job" =>
        \A i \in 1..Len(gen) :
            gen[i].error = "FileTooLarge" =>
                /\ pc = "failed"
                /\ i = Len(gen)
                /\ DOMAIN files = FirstFileNames(i - 1)
                /\ \A j \in 1..(i - 1) :
                      /\ files[specs[j].fileName].kind = "partial"
                      /\ files[specs[j].fileName].methods = gen[j].emitted
                      /\ files[specs[j].fileName].lines = ContentLines(gen[j])

C8_Witness ==
    /\ driver = "job" /\ pc = "failed" /\ error.kind = "FileTooLarge"
    /\ variant = "full"
    /\ Len(gen) = 2
    /\ "P1.cs" \in DOMAIN files

\* the signature keys of the entries whose text the calls so far appended
\* to their content
EmittedKeys ==
    UNION { { cls[e].signatureKey : e \in Emitted(gen[i]) } : i \in 1..Len(gen) }

C25_FolderThenSpecFilesThenCore ==
    [][files' # files =>
        /\ dirExists
        /\ DOMAIN files = FirstFileNames(k - 1)
        /\ Len(gen) = k - 1
        /\ IF k <= Len(specs)
           THEN /\ k' = k + 1
                /\ Len(gen') = k
                /\ files' = writeFile(files, specs[k].fileName, PartialContent(gen'[k]))
           ELSE /\ pc' = "done"
                /\ gen' = gen
                /\ DOMAIN files' = DOMAIN files \cup {mainPartialClassName}
                /\ files'[mainPartialClassName].kind = "core"]_vars

\* a job of two specs has written its three files into a folder that did
\* not exist before
C25_Witness ==
    /\ pc = "done"
    /\ ~dir0
    /\ Len(specs) = 2
    /\ DOMAIN files = FirstFileNames(2) \cup {mainPartialClassName}

\* C27: a generatePartialClass call that raises leaves processedMethods and
\* the remainder buffer as they were before the call
C27_RaisingCallLeavesStateUntouched ==
    [][(Len(gen') = Len(gen) + 1 /\ gen'[Len(gen')].error # "none") =>
        (processedMethods' = processedMethods /\ remainder' = remainder)]_vars

\* C30: in csharp_refactorer.js a job that completed has processed every
\* parsed method: nothing is left for the core file and no method is
\* reported as not assigned
C30_SuccessLeavesNothingUnprocessed ==
    (variant = "full" /\ pc = "done") =>
        /\ \A e \in AllEntries : cls[e].signatureKey \in processedMethods
        /\ remainder = {}
        /\ files[mainPartialClassName].methods = {}

\* a job on a class with two overloads of one name has completed
C30_Witness ==
    /\ variant = "full"
    /\ pc = "done"
    /\ Len(cls) = 2
    /\ cls[1].name = cls[2].name
    /\ cls[1].signatureKey # cls[2].signatureKey

----------------------------------------------------------------------------
(* Properties of the dependency tree *)

\* is the node marked circular (the field is set only on circular nodes)
IsCircular(n) == "circular" \in DOMAIN n /\ n.circular = TRUE

\* the only call site of method m is an unqualified call of callee
CallsOnly(m, callee) ==
    /\ Len(calls[m]) = 1
    /\ calls[m][1].methodName = callee
    /\ calls[m][1].className = "this"

\* C9: for A calling B and B calling A, the tree built from A with the
\* class's name as start class and maxDepth 5 is A (not circular) with the
\* one child B (not circular) with the one child A (circular, no children)
C9_MutualRecursionTree ==
    (/\ tpc = "built"
     /\ startClassName = TargetClass /\ startMethodName = "A" /\ maxDepth = 5
     /\ CallsOnly("A", "B") /\ CallsOnly("B", "A")) =>
        /\ ~IsNull(tree.root)
        /\ tree.root.methodName = "A"
        /\ ~IsCircular(tree.root)
        /\ Len(tree.root.dependencies) = 1
        /\ LET b == tree.root.dependencies[1]
           IN  /\ b.methodName = "B"
               /\ ~IsCircular(b)
               /\ Len(b.dependencies) = 1
               /\ b.dependencies[1].methodName = "A"
               /\ IsCircular(b.dependencies[1])
               /\ b.dependencies[1].dependencies = <<>>

\* C10: the root of a built tree is never marked circular
C10_RootNeverCircular ==
    tpc = "built" => (IsNull(tree.root) \/ ~IsCircular(tree.root))

\* a directly recursive start method: the root is a node and one of its
\* children is the start method again, marked circular
C10_Witness ==
    /\ tpc = "built"
    /\ ~IsNull(tree.root)
    /\ \E i \in 1..Len(calls[startMethodName]) :
          /\ calls[startMethodName][i].methodName = startMethodName
          /\ calls[startMethodName][i].className = startClassName
    /\ \E i \in 1..Len(tree.root.dependencies) :
          /\ IsCircular(tree.root.dependencies[i])
          /\ tree.root.dependencies[i].methodName = startMethodName

RECURSIVE NodesUnder(_, _, _)
\* the nodes of the subtree of node n, each with the keys of its ancestors
\* from the root down and its depth
NodesUnder(n, ancestors, depth) ==
    {[node |-> n, ancestors |-> ancestors, depth |-> depth]}
    \cup UNION { NodesUnder(n.dependencies[i],
                            Append(ancestors, nodeKey(n.className, n.methodName)),
                            depth + 1) : i \in 1..Len(n.dependencies) }

\* the nodes of the tree that was built
TreeNodes ==
    IF tpc # "built" \/ IsNull(tree.root) THEN {} ELSE NodesUnder(tree.root, <<>>, 0)

AncestorKeys(r) == { r.ancestors[i] : i \in 1..Len(r.ancestors) }

\* was the node resolved (the field is missing on circular nodes)
IsFound(n) == "found" \in DOMAIN n /\ n.found = TRUE

\* C15: a node is marked circular only if a node with its class name and
\* method name is among its ancestors (and then it is); a method reached in
\* two sibling subtrees is circular in neither
C15_CircularOnlyOnOwnPath ==
    \A r \in TreeNodes :
        IsCircular(r.node) <=>
            nodeKey(r.node.className, r.node.methodName) \in AncestorKeys(r)

\* the root calls B and C, C calls B: B is expanded under the root and under
\* C and circular in neither place
C15_Witness ==
    /\ tpc = "built"
    /\ ~IsNull(tree.root)
    /\ Len(tree.root.dependencies) = 2
    /\ LET b == tree.root.dependencies[1]
           c == tree.root.dependencies[2]
       IN  /\ b.methodName = "B" /\ c.methodName = "C"
           /\ IsFound(b) /\ IsFound(c)
           /\ Len(c.dependencies) = 1
           /\ c.dependencies[1].methodName = "B"
           /\ IsFound(c.dependencies[1])
           /\ ~IsCircular(c.dependencies[1])
           /\ c.dependencies[1] = b

\* C16: with the root at depth 0 no node is at depth maxDepth or deeper; a
\* node at depth maxDepth-1 has no child; a resolved, non-circular node at a
\* smaller depth has one child per call site, in call-site order
C16_DepthLimit ==
    \A r \in TreeNodes :
        /\ r.depth < maxDepth
        /\ r.depth = maxDepth - 1 => r.node.dependencies = <<>>
        /\ (IsFound(r.node) /\ ~IsCircular(r.node) /\ r.depth < maxDepth - 1) =>
              /\ Len(r.node.dependencies) = Len(calls[r.node.methodName])
              /\ \A i \in 1..Len(r.node.dependencies) :
                    /\ r.node.dependencies[i].className
                          = calls[r.node.methodName][i].className
                    /\ r.node.dependencies[i].methodName
                          = calls[r.node.methodName][i].methodName

\* a resolved node at depth maxDepth-1 with call sites and no child, below a
\* root with two children
C16_Witness ==
    /\ maxDepth = 3
    /\ \E r \in TreeNodes :
          /\ r.depth = maxDepth - 1
          /\ IsFound(r.node)
          /\ calls[r.node.methodName] # <<>>
          /\ r.node.dependencies = <<>>
    /\ Len(tree.root.dependencies) = 2

\* C17: a circular node has no children, a node with found=false has no
\* children, and a node with children was resolved: its qualifier is 'this'
\* or the start class and its name is in the name index
C17_ChildrenOnlyUnderResolvedNodes ==
    \A r \in TreeNodes :
        /\ IsCircular(r.node) => r.node.dependencies = <<>>
        /\ ~IsFound(r.node) => r.node.dependencies = <<>>
        /\ r.node.dependencies # <<>> =>
              /\ IsFound(r.node)
              /\ r.node.className \in {"this", startClassName}
              /\ r.node.methodName \in DOMAIN calls
        /\ (~IsCircular(r.node)) =>
              (IsFound(r.node) <=>
                  (r.node.className \in {"this", startClassName}
                      /\ r.node.methodName \in DOMAIN calls))

\* a tree with a circular node, a node that was not resolved, and a resolved
\* node with children
C17_Witness ==
    /\ \E r \in TreeNodes : IsCircular(r.node)
    /\ \E r \in TreeNodes :
          /\ "found" \in DOMAIN r.node /\ ~r.node.found
          /\ r.node.className = "obj"
          /\ calls[r.node.methodName] # <<>>
    /\ \E r \in TreeNodes : r.depth > 0 /\ r.node.dependencies # <<>>

\* C18: buildDependencyTree terminates, whatever the call graph (self
\* recursion, mutual recursion, several paths to a method) and maxDepth: the
\* run reaches its end, with the tree buildNode defines
C18_BuildTerminates ==
    <>(rtpc = "built" /\ frames = <<>> /\ runTree = buildDependencyTree)

\* the run has ended on a class where A calls itself and B, and B calls A
C18_Witness ==
    /\ rtpc = "built"
    /\ maxDepth = MaxDepthArg
    /\ \E i \in 1..Len(calls["A"]) : calls["A"][i].methodName = "A"
    /\ \E i \in 1..Len(calls["A"]) : calls["A"][i].methodName = "B"
    /\ \E i \in 1..Len(calls["B"]) : calls["B"][i].methodName = "A"
    /\ ~IsNull(runTree.root)
    /\ Len(runTree.root.dependencies) = 2

\* C29: whatever maxDepth is, the tree has a node as its root and the
\* build_dependency_tree tool answers with the rendered tree, the line of
\* the root at least, not with an error text
C29_RootIsANodeAndIsRendered ==
    tpc = "built" =>
        /\ ~IsNull(tree.root)
        /\ response.kind = "tree"
        /\ response.lines >= 1

----------------------------------------------------------------------------
(* Properties of findMethodCallers *)

\* the methods findMethodCallers listed
CallerNames == { callers[i].methodName : i \in 1..Len(callers) }

\* does some overload of m hold a call site that names target
SomeOverloadCalls(m, target) ==
    \/ \E j \in 1..Len(calls[m]) : calls[m][j].methodName = target
    \/ \E i \in 1..Len(moreCalls[m]) :
          \E j \in 1..Len(moreCalls[m][i]) : moreCalls[m][i][j].methodName = target

\* C13: findMethodCallers(T) lists a method M if and only if the call sites
\* of at least one overload of M include a call whose method name is T; so a
\* directly recursive method is its own caller and a method without such a
\* call site is not listed
C13_CallersAreMethodsWithCallSite ==
    cpc = "found" =>
        /\ \A m \in TreeMethods :
              (m \in CallerNames) <=> SomeOverloadCalls(m, targetMethodName)
        /\ CallerNames \subseteq TreeMethods
        /\ \A i \in 1..Len(callers) :
              /\ callers[i].calls # <<>>
              /\ \A j \in 1..Len(callers[i].calls) :
                    callers[i].calls[j].methodName = targetMethodName

\* the target calls itself in its second overload only, the other method
\* does not call it: the target is the one caller listed
C13_Witness ==
    /\ cpc = "found"
    /\ ~callsTarget(calls[targetMethodName], targetMethodName)
    /\ Len(moreCalls[targetMethodName]) = 1
    /\ callsTarget(moreCalls[targetMethodName][1], targetMethodName)
    /\ CallerNames = {targetMethodName}
    /\ \E m \in TreeMethods : m # targetMethodName /\ calls[m] # <<>>

----------------------------------------------------------------------------
(* Properties of the enhanced analyzer *)

\* the analyzer is installed, starts, exits with code 0 and prints JSON
AnalyzerSucceeds ==
    /\ analyzerInstalled
    /\ childRun.spawn = "ok"
    /\ childRun.code = 0
    /\ childRun.stdout # "garbage"

\* C14: whenever the external analyzer does not succeed (absent, not
\* startable, non-zero exit code, output that is not JSON) the called method
\* returns what the regex fallback computes from the source file, marked
\* 'regex', which does not depend on how the analyzer failed; the promise of
\* executeRoslynAnalyzer is only ever resolved, and with success only for
\* exit code 0 and an output that parses
C14_AnalyzerFailureFallsBackToRegex ==
    /\ (rpc = "returned" /\ ~AnalyzerSucceeds) =>
          /\ result = regexFallback
          /\ result.source = "regex"
    /\ promise.state \in {"pending", "resolved"}
    /\ (promise.state = "resolved" /\ promise.value.success) => AnalyzerSucceeds
    /\ (rpc = "returned" /\ result.source = "roslyn") => AnalyzerSucceeds

\* the analyzer exits with code 0 and prints no JSON: listMethods returned
\* the methods the lexical analyzer found
C14_Witness ==
    /\ rpc = "returned"
    /\ ~isProject
    /\ analyzerInstalled
    /\ childRun.spawn = "ok" /\ childRun.code = 0 /\ childRun.stdout = "garbage"
    /\ closeEmitted
    /\ operation = "listMethods"
    /\ result.success
    /\ result.source = "regex"
    /\ Len(result.payload) = 2

----------------------------------------------------------------------------
(* Properties of mergeConfigurations *)

RECURSIVE ConcatLists(_, _)
\* the first n lists, one after the other
ConcatLists(lists, n) ==
    IF n = 0 THEN <<>> ELSE ConcatLists(lists, n - 1) \o lists[n]

\* nothing of the job happened: the source is not parsed, no folder is
\* created, no file is written
JobNotStarted ==
    /\ pc = "start"
    /\ remainder = {}
    /\ processedMethods = {}
    /\ dirExists = dir0
    /\ files = <<>>

\* C11 as stated: a later document that has one of the four fields with a
\* value different from the first document's makes the merge fail; a merge
\* that succeeds carries the first document's values; a failed merge leaves
\* the source unparsed and creates no directory or file
C11_PresentDifferentFieldFails ==
    /\ configIndex >= 2 =>
          \A key \in RequiredKeySet :
              (config.fields[key] # Undefined
                  /\ config.fields[key] # firstConfig.fields[key]) => mpc = "failed"
    /\ mpc = "merged" =>
          \A key \in RequiredKeySet : mergedConfig.fields[key] = firstConfig.fields[key]
    /\ mpc = "failed" => JobNotStarted

\* C11 amended: a later document that has one of the four fields with a
\* non-empty value different from the first document's makes the merge fail,
\* and a mismatch error on a field is raised only then; an absent, empty or
\* equal field does not; a merge that succeeds carries the first document's
\* values; a failed merge leaves the source unparsed and creates no directory
\* or file
C11_NonEmptyDifferentFieldFails ==
    /\ configIndex >= 2 =>
          /\ \A key \in RequiredKeySet :
                (Truthy(config.fields[key])
                    /\ config.fields[key] # firstConfig.fields[key]) =>
                        (mpc = "failed" /\ merror.kind = "Mismatch")
          /\ (merror.kind = "Mismatch" /\ merror.key \in RequiredKeySet) =>
                /\ Truthy(config.fields[merror.key])
                /\ config.fields[merror.key] # firstConfig.fields[merror.key]
    /\ mpc = "merged" =>
          \A key \in RequiredKeySet :
              /\ mergedConfig.fields[key] = firstConfig.fields[key]
              /\ Truthy(mergedConfig.fields[key])
    /\ mpc = "failed" => JobNotStarted
    /\ pc # "start" => mpc = "merged"

\* the second document gives another namespace: the merge failed on it and
\* the destination folder, which did not exist, still does not
C11_Witness ==
    /\ configIndex = 2
    /\ mpc = "failed"
    /\ merror.kind = "Mismatch"
    /\ merror.key = "newNamespace"
    /\ config.fields["sourceFile"] = Undefined
    /\ config.fields["destinationFolder"] = firstConfig.fields["destinationFolder"]
    /\ ~dir0 /\ ~dirExists

\* C12: once every document is read, the merge fails exactly when two
\* entries of the concatenated partialClasses lists have the same fileName;
\* otherwise the merged list is the documents' lists in document order,
\* whatever method names the entries share
C12_DuplicateFileNameFailsElseConcatenation ==
    (/\ configIndex = numConfigFiles
     /\ mpc # "merging"
     /\ merror.kind \notin {"MissingKey", "Mismatch", "ConfigRead"}) =>
        LET all == ConcatLists(docLists, Len(docLists))
        IN  IF \E i \in 1..Len(all) : \E j \in 1..Len(all) :
                    i < j /\ all[i].fileName = all[j].fileName
            THEN /\ mpc = "failed"
                 /\ merror.kind = "DuplicateFileNames"
                 /\ JobNotStarted
            ELSE /\ mpc = "merged"
                 /\ Len(docLists) = numConfigFiles
                 /\ mergedConfig.partialClasses = all
                 /\ specs = all

\* two documents, one entry each, different file names, the same method
C12_Witness ==
    /\ mpc = "merged"
    /\ Len(docLists) = 2
    /\ Len(docLists[1]) = 1 /\ Len(docLists[2]) = 1
    /\ docLists[1][1].methods = docLists[2][1].methods
    /\ mergedConfig.partialClasses = <<docLists[1][1], docLists[2][1]>>
    /\ pc = "validate"

\* C28: the files a job writes have pairwise distinct names, the core file
\* overwrites no per-spec file, and when the job has completed every
\* per-spec file holds the content generated for its spec
C28_CoreFileOverwritesNoSpecFile ==
    pc = "done" =>
        /\ \A i \in 1..Len(specs) :
              /\ specs[i].fileName # main_partial_class_file_name
              /\ specs[i].fileName \in DOMAIN files
              /\ files[specs[i].fileName] = PartialContent(gen[i])
        /\ \A i, j \in 1..Len(specs) : i # j => specs[i].fileName # specs[j].fileName

----------------------------------------------------------------------------
(* Properties of the brace scanners *)

\* the index of the brace that closes the body: braces count in code only; a
\* string runs from a double quote to the next one, a backslash in it taking
\* the next character with it; a line comment runs from // to the line
\* break; a block comment runs from /* to the next */
RECURSIVE ClosingBrace(_, _, _, _)
ClosingBrace(text, i, mode, depth) ==
    IF i > Len(text) THEN 0
    ELSE LET char == text[i]
             nextChar == IF i < Len(text) THEN text[i + 1] ELSE ""
         IN  CASE mode = "string" ->
                    IF char = "\\" THEN ClosingBrace(text, i + 2, "string", depth)
                    ELSE IF char = "\"" THEN ClosingBrace(text, i + 1, "code", depth)
                    ELSE ClosingBrace(text, i + 1, "string", depth)
               [] mode = "line" ->
                    ClosingBrace(text, i + 1, IF char = "\n" THEN "code" ELSE "line", depth)
               [] mode = "block" ->
                    IF char = "*" /\ nextChar = "/"
                    THEN ClosingBrace(text, i + 2, "code", depth)
                    ELSE ClosingBrace(text, i + 1, "block", depth)
               [] OTHER ->
                    IF char = "\"" THEN ClosingBrace(text, i + 1, "string", depth)
                    ELSE IF char = "/" /\ nextChar = "*"
                    THEN ClosingBrace(text, i + 2, "block", depth)
                    ELSE IF char = "/" /\ nextChar = "/"
                    THEN ClosingBrace(text, i + 2, "line", depth)
                    ELSE IF char = "{" THEN ClosingBrace(text, i + 1, "code", depth + 1)
                    ELSE IF char = "}" /\ depth = 1 THEN i
                    ELSE IF char = "}" THEN ClosingBrace(text, i + 1, "code", depth - 1)
                    ELSE ClosingBrace(text, i + 1, "code", depth)

\* where the class-body scan found the end of the class, 0 if nowhere
ClassEnd == IF classScan = <<>> THEN 0 ELSE classScan[Len(classScan)].endIndex

\* the modes a state of the class-body scan is in
ActiveModes(s) ==
    {m \in {"string", "block", "line"} :
        \/ m = "string" /\ s.isInString
        \/ m = "block" /\ s.isInComment
        \/ m = "line" /\ s.isInLineComment}

\* C21: when the brace scan of a class or of a method reaches the end of the
\* text without a closing brace, the parse fails: it does not return a
\* result from which the class or the method is missing
C21_UnclosedBraceIsReported ==
    /\ (spc = "class" /\ ClassEnd = 0) => parseError # "none"
    /\ (spc = "method" /\ methodScan.endIndex = 0) => parseError # "none"

\* C19: the class-body scan ends the class at the first brace that brings the
\* depth to 0, braces counted only outside strings, // comments and /* */
\* comments, and at every step it is in at most one of the three modes
C19_ClassScanFindsClosingBrace ==
    spc = "class" =>
        /\ ClassEnd = ClosingBrace(sourceCode, 1, "code", 1)
        /\ \A q \in 1..Len(classScan) : Cardinality(ActiveModes(classScan[q])) <= 1

\* a body that is one string literal holding braces or a //, and then the
\* closing brace of the method
StringThenClose ==
    LET n == Len(sourceCode)
    IN  /\ n >= 4
        /\ sourceCode[1] = "\"" /\ sourceCode[n - 1] = "\"" /\ sourceCode[n] = "}"
        /\ \A q \in 2..(n - 2) : sourceCode[q] \in {"{", "}", "/"}
        /\ \/ \E q \in 2..(n - 2) : sourceCode[q] \in {"{", "}"}
           \/ \E q \in 2..(n - 3) : sourceCode[q] = "/" /\ sourceCode[q + 1] = "/"

\* C20: when the body of a method holds a string literal with braces or a //
\* in it, the method-body scan ends the method at its true closing brace
C20_MethodScanSkipsStrings ==
    (spc = "method" /\ StringThenClose) => methodScan.endIndex = Len(sourceCode)

\* C22: parseAllClasses returns the classes in source order, and none that
\* is declared inside the body of one it returned: every class starts after
\* the end of the class before it
C22_ClassesDoNotOverlap ==
    spc \in {"classes", "declared"} =>
        \A i \in 1..(Len(parsed) - 1) : parsed[i + 1].startIndex > parsed[i].endIndex

\* C26: with an interface set, the class declaration written into the file
\* holds ': <interface>' before the opening brace of the class; with none
\* set it holds no base list
C26_InterfaceBeforeOpeningBrace ==
    spc = "declared" =>
        IF classDecl.interface # ""
        THEN \E i \in 1..(Len(classDecl.text) - 2) :
                /\ classDecl.text[i] = ":"
                /\ classDecl.text[i + 1] = classDecl.interface
        ELSE \A i \in 1..Len(classDecl.text) : classDecl.text[i] # ":"

\* the matches with a closing brace, by position
ClosedMatches == { i \in 1..Len(sourceCode) : sourceCode[i].closed }

\* a signature without its white space
Stripped(signature) == SelectSeq(signature, LAMBDA t : t # " ")

RECURSIVE ClosedNamed(_, _)
\* the closed matches named name among the first n, in scan order
ClosedNamed(name, n) ==
    IF n = 0 THEN <<>>
    ELSE IF sourceCode[n].closed /\ sourceCode[n].signature[1] = name
         THEN Append(ClosedNamed(name, n - 1), n)
         ELSE ClosedNamed(name, n - 1)

RECURSIVE TotalListed(_)
\* the number of entries the lists of the names in the set hold together
TotalListed(names) ==
    IF names = {} THEN 0
    ELSE LET n == CHOOSE x \in names : TRUE
         IN  Len(parsed.methodsByName[n]) + TotalListed(names \ {n})

\* C23: every match with a closing brace is appended to the list of its name,
\* in scan order; the signature index has one entry per distinct
\* white-space-stripped signature, the text of the last match with it; the
\* lists of the name index hold as many entries as methods were matched
C23_NameIndexKeepsAllSignatureIndexKeepsLast ==
    spc = "methods" =>
        /\ parseError = "none"
        /\ DOMAIN parsed.methodsByName =
              { sourceCode[i].signature[1] : i \in ClosedMatches }
        /\ \A name \in DOMAIN parsed.methodsByName :
              LET list == parsed.methodsByName[name]
                  expected == ClosedNamed(name, Len(sourceCode))
              IN  /\ Len(list) = Len(expected)
                  /\ \A i \in 1..Len(list) :
                        /\ list[i].content = expected[i]
                        /\ list[i].signature = sourceCode[expected[i]].signature
        /\ DOMAIN parsed.methods =
              { Stripped(sourceCode[i].signature) : i \in ClosedMatches }
        /\ \A key \in DOMAIN parsed.methods :
              /\ parsed.methods[key] \in ClosedMatches
              /\ Stripped(sourceCode[parsed.methods[key]].signature) = key
              /\ \A i \in ClosedMatches :
                    Stripped(sourceCode[i].signature) = key => i <= parsed.methods[key]
        /\ TotalListed(DOMAIN parsed.methodsByName) = Cardinality(ClosedMatches)

====
